---- MODULE Spec2Model ----
(***************************************************************************)
(* Radiation-sensing core of the picrawler robot (src/radiation_bot.py)    *)
(* and the thread structure of its control hub (src/main_control.py).      *)
(*                                                                         *)
(* Two execution contexts share the RadiationSensor object: the GPIO       *)
(* event thread, which runs _pulse_callback, and the control thread,       *)
(* which runs get_reading and collect_radiation_sample.  Neither takes a   *)
(* lock, so every read and write of a shared field is a step of its own.   *)
(*                                                                         *)
(* Time is the value of time.time() in whole seconds.  A reading is the    *)
(* exact rational <<numerator, denominator>> in lowest terms of the value  *)
(* the code computes.                                                      *)
(*                                                                         *)
(* explore_grid and find_radiation_source are modelled on one control      *)
(* thread, each move_and_track call and each dwell being one step; there   *)
(* a dwell is taken whole, its average reading being any of a few levels.  *)
(* The console of src/radiation_control.py is modelled the same way.       *)
(*                                                                         *)
(* In those parts a coordinate is the exact real a + b * sqrt(2)/2 that    *)
(* the moves add up to.  The PositionTracker is also modelled on its own   *)
(* with x and y as the doubles Python computes, every operation rounded.   *)
(***************************************************************************)
EXTENDS Integers, Sequences, FiniteSets, TLC

\* ---------------------------------------------------------------- bounds
MaxTime == 5         \* seconds of each minute in which anything may begin
MaxMinutes == 1      \* quiet minutes explored
MaxPulses == 2       \* pulse callbacks explored against bare rate queries
MaxDwellPulses == 1  \* pulse callbacks explored against dwells
MaxSamples == 1      \* dwells explored
MaxDemos == 2        \* demo threads explored
MaxGrid == 3         \* largest grid_size passed to explore_grid
MaxStepDistance == 2 \* largest step_distance passed to explore_grid
MaxIterations == 2   \* largest max_steps passed to find_radiation_source
MaxLevel == 2        \* a dwell's average reading is one of 0 .. MaxLevel counts per minute
MaxHot == 0          \* dwells of one grid exploration in which pulses arrive (reading above 0)
MaxKeys == 3         \* keys read by the console's command loop
MaxApplies == 4      \* calls of update_position explored on one tracker
MaxSteps == 1        \* largest step count explored, beside 0 and the full turn of 8 steps

\* ------------------------------------------------------ program constants
ReadingInterval == 5     \* self.reading_interval = 5.0
Window == 60             \* cutoff_time = current_time - 60
PerMinute == 60          \* (self.pulse_count / elapsed) * 60 ; cps = cpm / 60
TubeSensitivity == 65    \* micro_r_per_sec = cps / 65
SvNum == 36              \* 0.036 = 36 / 1000
SvDen == 1000
PerHour == 3600          \* * 3600
DefaultDwell == 5        \* collect_radiation_sample(self, duration=5)
ScanDwell == 2           \* radiation = self.collect_radiation_sample(2)
GridSize == 4            \* self.explore_grid(grid_size=4, step_distance=2)
SeekMaxSteps == 15       \* self.find_radiation_source(max_steps=15)
StepSize == 10           \* self.step_size = 10  # cm per step
TurnAngle == 45          \* self.heading += 45 * steps
FullTurn == 360          \* self.heading = self.heading % 360
BinSize == 10            \* round(x/10)*10
Advance == 2             \* self.move_and_track('forward', 2)
Significand == 53        \* self.x += ... : a Python float has a significand of 53 bits

\* ------------------------------------------------------ exact rationals
RECURSIVE Gcd(_, _)
Gcd(a, b) == IF b = 0 THEN a ELSE Gcd(b, a % b)

Abs(n) == IF n < 0 THEN 0 - n ELSE n

\* n / d in lowest terms with a positive denominator (d # 0)
Rat(n, d) ==
  LET s == IF d < 0 THEN 0 - 1 ELSE 1
      g == Gcd(Abs(n), Abs(d))
  IN  <<(s * n) \div g, (s * d) \div g>>

Zero == <<0, 1>>
RAdd(p, q) == Rat(p[1] * q[2] + q[1] * p[2], p[2] * q[2])
RLe(p, q) == p[1] * q[2] <= q[1] * p[2]
RLt(p, q) == p[1] * q[2] < q[1] * p[2]
RInt(n) == <<n, 1>>

RECURSIVE RSum(_)
RSum(s) == IF s = <<>> THEN Zero ELSE RAdd(Head(s), RSum(Tail(s)))

\* sum(xs) / len(xs) if xs else 0
Mean(s) ==
  IF s = <<>> THEN Zero
  ELSE LET t == RSum(s) IN Rat(t[1], t[2] * Len(s))

\* ------------------------------------------------------ exact positions
\* A coordinate in centimetres is the pair <<a, b>> standing for a + b * sqrt(2)/2:
\* the headings the tracker can hold are the multiples of 45 degrees, whose
\* cosines and sines are 0, 1, -1, sqrt(2)/2 and -sqrt(2)/2.
Origin == <<0, 0>>
SAdd(p, q) == <<p[1] + q[1], p[2] + q[2]>>
SSub(p, q) == <<p[1] - q[1], p[2] - q[2]>>
SScale(k, p) == <<k * p[1], k * p[2]>>

\* math.cos(math.radians(h)) for h a multiple of 45 in 0 .. 359
Cos(h) ==
  CASE h = 0 -> <<1, 0>>
    [] h = 45 -> <<0, 1>>
    [] h = 90 -> <<0, 0>>
    [] h = 135 -> <<0, 0 - 1>>
    [] h = 180 -> <<0 - 1, 0>>
    [] h = 225 -> <<0, 0 - 1>>
    [] h = 270 -> <<0, 0>>
    [] h = 315 -> <<0, 1>>

\* math.sin(math.radians(h)) = cos(h - 90)
Sin(h) == Cos((h + 270) % 360)

\* a + b * sqrt(2)/2 >= k, decided on integers
SGe(p, k) ==
  LET m == k - p[1]
      b == p[2]
  IN  IF b >= 0 THEN m <= 0 \/ b * b >= 2 * m * m
      ELSE m <= 0 /\ b * b <= 2 * m * m

VARIABLES
  now,               \* time.time()
  \* RadiationSensor fields
  pulse_count, start_time, last_reading, pulse_buffer,
  \* _pulse_callback, running on the GPIO event thread
  cb_pc, cb_time, cb_cnt, cb_tmp,
  \* control thread: get_reading and its caller
  pc, caller, q_time, q_len, ret, instant_cpm,
  \* control thread: collect_radiation_sample
  c_start, c_dur, c_wake, readings, usv_readings,
  \* PositionTracker and RadiationBot fields
  x, y, heading, radiation_data, heatmap_data, max_radiation, max_radiation_pos,
  \* history variables (observations, not program state)
  delivered,         \* pulse callbacks started
  cb_dup,            \* the running callback's timestamp is not newer than the newest recorded one
  cb_early,          \* the latest callback had appended its timestamp when a dwell reset the buffer
  cb_src, cnt_src,   \* timestamps of the pulses counted in the loaded count / in pulse_count
  consumed,          \* pulses counted in the interval counts that recomputations have used
  q_src,             \* timestamps in the pulse buffer when get_reading took its length
  est_src,           \* timestamps of the pulses last_reading was computed from
  last_call,         \* how the latest get_reading call returned: "none", "stale", "fresh"
  d_pulses,          \* a pulse callback has run since the current dwell began
  \* PicrawlerControlHub (src/main_control.py) and the threads it starts
  running,           \* self.running
  mode,              \* self.status['mode']
  kb_pc,             \* the main thread, in keyboard_control_loop
  st_pc,             \* the status thread, in status_update_loop
  is_exploring,      \* RadiationBot.is_exploring
  demo,              \* the demo threads, each in RadiationBot.demo_mode
  \* a control thread inside explore_grid or find_radiation_source
  nav,               \* its position in the code and its locals
  trail              \* history: what the running operation has done so far

sensor == <<pulse_count, start_time, last_reading, pulse_buffer>>
cbvars == <<cb_pc, cb_time, cb_cnt, cb_tmp>>
qvars == <<pc, caller, q_time, q_len, ret, instant_cpm>>
cvars == <<c_start, c_dur, c_wake, readings, usv_readings>>
botvars == <<x, y, heading, radiation_data, heatmap_data, max_radiation, max_radiation_pos>>
cbhist == <<delivered, cb_dup, cb_src, cb_early>>
qhist == <<q_src, est_src, last_call>>
hist == <<cbhist, cnt_src, consumed, qhist, d_pulses>>
hubvars == <<running, mode, kb_pc, st_pc, is_exploring, demo>>
robotvars == <<now, sensor, cbvars, qvars, cvars, botvars, hist>>
navvars == <<nav, trail>>
vars == <<robotvars, hubvars, navvars>>

\* a demo thread that has not been started
NoDemo == [pc |-> "none", row |-> 0, col |-> 0, k |-> 0, steps |-> 0, best |-> FALSE]

\* a control thread that has entered neither explore_grid nor find_radiation_source
NoNav == [pc |-> "idle", op |-> "none"]

\* the locals of explore_grid and find_radiation_source on entry
Entered ==
  [pc |-> "idle", op |-> "none", todo |-> <<>>,
   grid_size |-> 0, step_distance |-> 0, row |-> 0, col |-> 0,
   max_steps |-> 0, steps_taken |-> 0, current_radiation |-> Zero,
   best_radiation |-> Zero, best_direction |-> "None", said |-> "",
   \* history: the pose when the operation (or the seek iteration) began, the pose
   \* of the best probe, the baseline before the latest advance, the dwells with
   \* pulses; the stop signal was raised, a grid point was tested after it, a seek
   \* iteration began after it, it was raised while a seek iteration was in progress
   start |-> [x |-> Origin, y |-> Origin, heading |-> 0],
   best_pose |-> [x |-> Origin, y |-> Origin, heading |-> 0],
   previous_radiation |-> Zero, hot |-> 0,
   stopped |-> FALSE, late |-> FALSE, begun_stopped |-> FALSE,
   mid_iteration |-> FALSE]

\* RadiationSensor.__init__, PositionTracker.__init__, RadiationBot.__init__,
\* PicrawlerControlHub.__init__
Init ==
  /\ now = 0
  /\ pulse_count = 0 /\ start_time = 0 /\ last_reading = Zero /\ pulse_buffer = <<>>
  /\ cb_pc = "idle" /\ cb_time = 0 /\ cb_cnt = 0 /\ cb_tmp = <<>>
  /\ pc = "idle" /\ caller = "poll" /\ q_time = 0 /\ q_len = 0 /\ ret = Zero
  /\ instant_cpm = 0
  /\ c_start = 0 /\ c_dur = 0 /\ c_wake = 0 /\ readings = <<>> /\ usv_readings = <<>>
  /\ x = Origin /\ y = Origin /\ heading = 0
  /\ radiation_data = <<>> /\ heatmap_data = <<>>
  /\ max_radiation = Zero /\ max_radiation_pos = <<Origin, Origin>>
  /\ delivered = 0 /\ cb_dup = FALSE /\ cb_src = {} /\ cb_early = FALSE
  /\ cnt_src = {} /\ consumed = 0
  /\ q_src = {} /\ est_src = {} /\ last_call = "none" /\ d_pulses = FALSE
  /\ running = FALSE /\ mode = "Manual" /\ kb_pc = "init" /\ st_pc = "none"
  /\ is_exploring = FALSE /\ demo = [t \in 1..MaxDemos |-> NoDemo]
  /\ nav = NoNav /\ trail = <<>>

\* ------------------------------------------------------------------ clock
\* one second passes (a dwell asleep in time.sleep is always let wake); the pulse
\* callback, a handful of bytecodes, is taken to begin and end within one second
Tick ==
  /\ \/ now % Window < MaxTime
     \/ pc = "c173" /\ now < c_wake
  /\ cb_pc = "idle"
  /\ now' = now + 1
  /\ UNCHANGED <<sensor, cbvars, qvars, cvars, botvars, hist>>
  /\ UNCHANGED <<hubvars, navvars>>

\* the wall clock is set back one second (time.time() is not monotonic)
ClockStepBack ==
  /\ now % Window > 0
  /\ pc = "idle" /\ cb_pc = "idle"
  /\ now' = now - 1
  /\ UNCHANGED <<sensor, cbvars, qvars, cvars, botvars, hist>>
  /\ UNCHANGED <<hubvars, navvars>>

\* a minute passes in which no pulse arrives and no query is made
QuietMinute ==
  /\ now \div Window < MaxMinutes
  /\ pc = "idle" /\ cb_pc = "idle"
  /\ now' = now + Window
  /\ UNCHANGED <<sensor, cbvars, qvars, cvars, botvars, hist>>
  /\ UNCHANGED <<hubvars, navvars>>

\* ------------------------------------------- RadiationSensor._pulse_callback
\* [t for t in self.pulse_buffer if t > cutoff_time]
Filtered(buf, cutoff) ==
  LET Keep(t) == t > cutoff IN SelectSeq(buf, Keep)

Stamps(buf) == {buf[i] : i \in DOMAIN buf}

\* a callback that skips a timestamp it has already recorded
RecordedOnce(buf, t) == IF t \in Stamps(buf) THEN buf ELSE Append(buf, t)

\* self.pulse_buffer.append(current_time)
Recorded(buf, t) == Append(buf, t)

\* current_time = time.time(); the load of self.pulse_count in "+= 1"
PulseStart ==
  /\ cb_pc = "idle"
  /\ cb_time' = now
  /\ cb_cnt' = pulse_count
  /\ cb_pc' = "store"
  /\ delivered' = delivered + 1
  /\ cb_dup' = \E t \in Stamps(pulse_buffer) : now <= t
  /\ cb_src' = cnt_src
  /\ cb_early' = FALSE
  /\ d_pulses' = TRUE
  /\ UNCHANGED <<now, sensor, cb_tmp, qvars, cvars, botvars, cnt_src, consumed, qhist>>
  /\ UNCHANGED <<hubvars, navvars>>

\* the store of self.pulse_count in "+= 1"
CbStore ==
  /\ cb_pc = "store"
  /\ pulse_count' = cb_cnt + 1
  /\ cnt_src' = cb_src \cup {cb_time}
  /\ cb_pc' = "append"
  /\ UNCHANGED <<now, start_time, last_reading, pulse_buffer, cb_time, cb_cnt, cb_tmp,
                 qvars, cvars, botvars, cbhist, consumed, qhist, d_pulses>>
  /\ UNCHANGED <<hubvars, navvars>>

CbAppend ==
  /\ cb_pc = "append"
  /\ pulse_buffer' = Recorded(pulse_buffer, cb_time)
  /\ cb_pc' = "filter"
  /\ UNCHANGED <<now, pulse_count, start_time, last_reading, cb_time, cb_cnt, cb_tmp,
                 qvars, cvars, botvars, hist>>
  /\ UNCHANGED <<hubvars, navvars>>

\* the list comprehension reads self.pulse_buffer ...
CbFilter ==
  /\ cb_pc = "filter"
  /\ cb_tmp' = Filtered(pulse_buffer, cb_time - Window)
  /\ cb_pc' = "assign"
  /\ UNCHANGED <<now, sensor, cb_time, cb_cnt, qvars, cvars, botvars, hist>>
  /\ UNCHANGED <<hubvars, navvars>>

\* ... and its result is stored in self.pulse_buffer; the callback returns
CbAssign ==
  /\ cb_pc = "assign"
  /\ pulse_buffer' = cb_tmp
  /\ cb_pc' = "idle"
  /\ cb_time' = 0 /\ cb_cnt' = 0 /\ cb_tmp' = <<>>
  /\ cb_dup' = FALSE /\ cb_src' = {}
  /\ UNCHANGED <<now, pulse_count, start_time, last_reading,
                 qvars, cvars, botvars, delivered, cb_early, cnt_src, consumed, qhist,
                 d_pulses>>
  /\ UNCHANGED <<hubvars, navvars>>

\* the pulse source raises an event
Pulse == delivered < MaxPulses /\ PulseStart
DwellPulse == delivered < MaxDwellPulses /\ PulseStart

\* ------------------------------------------------ RadiationSensor.get_reading
\* a test of the interval that is one second short
IntervalElapsedEarly(elapsed) == elapsed >= ReadingInterval - 1

\* if elapsed >= self.reading_interval
IntervalElapsed(elapsed) == elapsed >= ReadingInterval

\* the two methods subtracted instead of averaged
EstimateDifference(recent_pulses, count, elapsed) ==
  IF elapsed > 0
  THEN Rat(recent_pulses * elapsed - count * PerMinute, 2 * elapsed)
  ELSE RInt(recent_pulses)

\* (cpm + (self.pulse_count / elapsed) * 60) / 2, or cpm when elapsed is not positive
Estimate(recent_pulses, count, elapsed) ==
  IF elapsed > 0
  THEN Rat(recent_pulses * elapsed + count * PerMinute, 2 * elapsed)
  ELSE RInt(recent_pulses)

\* RadiationSensor.convert_to_microsieverts
convert_to_microsieverts(cpm) ==
  IF RLe(cpm, Zero) THEN Zero
  ELSE LET k == Rat(SvNum * PerHour, PerMinute * TubeSensitivity * SvDen)
       IN  Rat(cpm[1] * k[1], cpm[2] * k[2])

\* return self.last_reading, to the caller of get_reading
Return(v) ==
  /\ ret' = v
  /\ last_call' = IF pc = "gr58" THEN "stale" ELSE "fresh"
  /\ pc' = IF caller = "poll" THEN "idle" ELSE "c161"
  /\ q_time' = 0 /\ q_len' = 0 /\ q_src' = {}

\* a bare call of get_reading (the sensor test loop, the hub's update_status)
Poll ==
  /\ pc = "idle"
  /\ pc' = "gr58"
  /\ caller' = "poll"
  /\ UNCHANGED <<now, sensor, cbvars, q_time, q_len, ret, instant_cpm, cvars, botvars, hist>>
  /\ UNCHANGED <<hubvars, navvars>>

\* RadiationSensor.get_instant_cpm, called by the sensor test loop
PollInstant ==
  /\ pc = "idle"
  /\ instant_cpm' = Len(pulse_buffer)
  /\ UNCHANGED <<now, sensor, cbvars, pc, caller, q_time, q_len, ret, cvars, botvars, hist>>
  /\ UNCHANGED <<hubvars, navvars>>

\* current_time = time.time(); elapsed; the test of the interval; the stale return
GrEnter ==
  /\ pc = "gr58"
  /\ IF IntervalElapsed(now - start_time)
     THEN /\ pc' = "gr63"
          /\ q_time' = now
          /\ UNCHANGED <<q_len, ret, q_src, last_call>>
     ELSE Return(last_reading)
  /\ UNCHANGED <<now, sensor, cbvars, caller, instant_cpm, cvars, botvars,
                 cbhist, cnt_src, consumed, est_src, d_pulses>>
  /\ UNCHANGED <<hubvars, navvars>>

\* recent_pulses = len(self.pulse_buffer)
GrLen ==
  /\ pc = "gr63"
  /\ q_len' = Len(pulse_buffer)
  /\ q_src' = Stamps(pulse_buffer)
  /\ pc' = "gr68"
  /\ UNCHANGED <<now, sensor, cbvars, caller, q_time, ret, instant_cpm, cvars, botvars,
                 cbhist, cnt_src, consumed, est_src, last_call, d_pulses>>
  /\ UNCHANGED <<hubvars, navvars>>

\* short_term_cpm reads self.pulse_count; self.last_reading is stored
GrCompute ==
  /\ pc = "gr68"
  /\ last_reading' = Estimate(q_len, pulse_count, q_time - start_time)
  /\ consumed' = consumed + pulse_count
  /\ est_src' = q_src \cup cnt_src
  /\ pc' = "gr74"
  /\ UNCHANGED <<now, pulse_count, start_time, pulse_buffer, cbvars,
                 caller, q_time, q_len, ret, instant_cpm, cvars, botvars,
                 cbhist, cnt_src, q_src, last_call, d_pulses>>
  /\ UNCHANGED <<hubvars, navvars>>

\* self.pulse_count = 0
GrReset ==
  /\ pc = "gr74"
  /\ pulse_count' = 0
  /\ cnt_src' = {}
  /\ pc' = "gr75"
  /\ UNCHANGED <<now, start_time, last_reading, pulse_buffer, cbvars,
                 caller, q_time, q_len, ret, instant_cpm, cvars, botvars,
                 cbhist, consumed, qhist, d_pulses>>
  /\ UNCHANGED <<hubvars, navvars>>

\* self.start_time = current_time; return self.last_reading
GrRestart ==
  /\ pc = "gr75"
  /\ start_time' = q_time
  /\ Return(last_reading)
  /\ UNCHANGED <<now, pulse_count, last_reading, pulse_buffer, cbvars,
                 caller, instant_cpm, cvars, botvars,
                 cbhist, cnt_src, consumed, est_src, d_pulses>>
  /\ UNCHANGED <<hubvars, navvars>>

\* ------------------------------------- RadiationBot.collect_radiation_sample
\* round(n / 10) * 10 for a whole number n of centimetres (ties go to the even bin)
RoundWhole(n) ==
  LET q == n \div BinSize
      r == n % BinSize
  IN  IF 2 * r < BinSize THEN q * BinSize
      ELSE IF 2 * r > BinSize THEN (q + 1) * BinSize
      ELSE IF q % 2 = 0 THEN q * BinSize ELSE (q + 1) * BinSize

\* round(v / 10) * 10 for a coordinate v: off the whole numbers v is irrational,
\* so it lies strictly inside one bin
RoundBin(v) ==
  IF v[2] = 0 THEN RoundWhole(v[1])
  ELSE LET est == (10 * v[1] + 7 * v[2]) \div (10 * BinSize)
           q == CHOOSE k \in (est - 2) .. (est + 2) :
                  /\ SGe(SScale(2, v), (2 * k - 1) * BinSize)
                  /\ ~SGe(SScale(2, v), (2 * k + 1) * BinSize)
       IN  q * BinSize

\* a heat map whose cell keeps only its latest reading
BinReplace(h, key, v) ==
  [k \in DOMAIN h \cup {key} |-> IF k = key THEN <<v>> ELSE h[k]]

\* self.heatmap_data[key].append(v), on a defaultdict(list)
BinAppend(h, key, v) ==
  [k \in DOMAIN h \cup {key} |->
     IF k = key
     THEN Append(IF key \in DOMAIN h THEN h[key] ELSE <<>>, v)
     ELSE h[k]]

\* a test of the running maximum that an equal reading passes
ReachesMaximum(avg_reading, maximum) == RLe(maximum, avg_reading)

\* if avg_reading > self.max_radiation
ExceedsMaximum(avg_reading, maximum) == RLt(maximum, avg_reading)

\* start_time = time.time(); self.sensor.pulse_buffer = []
CollectStart(duration) ==
  /\ pc = "idle"
  /\ Len(radiation_data) < MaxSamples
  /\ c_dur' = duration
  /\ c_start' = now
  /\ readings' = <<>>
  /\ usv_readings' = <<>>
  /\ pulse_buffer' = <<>>
  /\ caller' = "collect"
  /\ pc' = "c158"
  /\ d_pulses' = (cb_pc # "idle")
  /\ cb_early' = (cb_pc \in {"filter", "assign"})
  /\ UNCHANGED <<now, pulse_count, start_time, last_reading, cbvars,
                 q_time, q_len, ret, instant_cpm, c_wake, botvars,
                 delivered, cb_dup, cb_src, cnt_src, consumed, qhist>>
  /\ UNCHANGED <<hubvars, navvars>>

\* while time.time() - start_time < duration
CollectLoop ==
  /\ pc = "c158"
  /\ pc' = IF now - c_start < c_dur THEN "gr58" ELSE "c175"
  /\ UNCHANGED <<now, sensor, cbvars, caller, q_time, q_len, ret, instant_cpm,
                 cvars, botvars, hist>>
  /\ UNCHANGED <<hubvars, navvars>>

\* instant_cpm, microsieverts, the two appends; time.sleep(1.0) begins
CollectRecord ==
  /\ pc = "c161"
  /\ instant_cpm' = Len(pulse_buffer)
  /\ readings' = Append(readings, ret)
  /\ usv_readings' = Append(usv_readings, convert_to_microsieverts(ret))
  /\ c_wake' = now + 1
  /\ pc' = "c173"
  /\ UNCHANGED <<now, sensor, cbvars, caller, q_time, q_len, ret, c_start, c_dur,
                 botvars, hist>>
  /\ UNCHANGED <<hubvars, navvars>>

\* time.sleep(1.0) returns
CollectWake ==
  /\ pc = "c173"
  /\ now >= c_wake
  /\ pc' = "c158"
  /\ UNCHANGED <<now, sensor, cbvars, caller, q_time, q_len, ret, instant_cpm,
                 cvars, botvars, hist>>
  /\ UNCHANGED <<hubvars, navvars>>

\* the averages, the data point, the heat map bin and the running maximum
CollectFinish ==
  /\ pc = "c175"
  /\ LET avg_reading == Mean(readings)
         avg_microsieverts == Mean(usv_readings)
         data_point == [position |-> <<x, y>>, heading |-> heading,
                        radiation_cpm |-> avg_reading,
                        radiation_microsieverts |-> avg_microsieverts,
                        readings |-> readings,
                        microsievert_readings |-> usv_readings]
     IN  /\ radiation_data' = Append(radiation_data, data_point)
         /\ heatmap_data' = BinAppend(heatmap_data, <<RoundBin(x), RoundBin(y)>>, avg_reading)
         /\ IF ExceedsMaximum(avg_reading, max_radiation)
            THEN /\ max_radiation' = avg_reading
                 /\ max_radiation_pos' = <<x, y>>
            ELSE UNCHANGED <<max_radiation, max_radiation_pos>>
  /\ pc' = "idle"
  /\ caller' = "poll"
  /\ instant_cpm' = 0
  /\ c_start' = 0 /\ c_dur' = 0 /\ c_wake' = 0 /\ readings' = <<>> /\ usv_readings' = <<>>
  /\ d_pulses' = FALSE
  /\ UNCHANGED <<now, sensor, cbvars, q_time, q_len, ret, x, y, heading,
                 cbhist, cnt_src, consumed, qhist>>
  /\ UNCHANGED <<hubvars, navvars>>

\* ------------------------------------------------- PicrawlerControlHub
\* In this part an operation of the robot (a move, a dwell, a rate query, a
\* posture action) is a region that a thread enters and leaves; the steps a
\* thread takes inside the region are those of the sensor and dwell actions
\* above.  Sleeps between operations are folded into the step that follows.

\* PicrawlerControlHub.start: self.running = True, the status thread, the keyboard loop
HubStart ==
  /\ kb_pc = "init"
  /\ running' = TRUE
  /\ st_pc' = "loop"
  /\ kb_pc' = "readchar"
  /\ UNCHANGED <<robotvars, navvars, mode, is_exploring, demo>>

\* status_update_loop: while self.running, update_status() is entered
StLoop ==
  /\ st_pc = "loop"
  /\ st_pc' = IF running THEN "update" ELSE "exit"
  /\ UNCHANGED <<robotvars, navvars, running, mode, kb_pc, is_exploring, demo>>

\* status_update_loop: update_status() has returned; time.sleep(0.5)
StUpdated ==
  /\ st_pc = "update"
  /\ st_pc' = "loop"
  /\ UNCHANGED <<robotvars, navvars, running, mode, kb_pc, is_exploring, demo>>

\* keys w, s, a, d: move_robot enters self.robot.move_and_track
KbMove ==
  /\ kb_pc = "readchar" /\ running
  /\ kb_pc' = "move"
  /\ UNCHANGED <<robotvars, navvars, running, mode, st_pc, is_exploring, demo>>

\* move_robot: move_and_track has returned; self.update_status() is entered
KbMoved ==
  /\ kb_pc = "move"
  /\ kb_pc' = "status"
  /\ UNCHANGED <<robotvars, navvars, running, mode, st_pc, is_exploring, demo>>

\* move_robot, take_radiation_reading: self.update_status() has returned
KbUpdated ==
  /\ kb_pc = "status"
  /\ kb_pc' = "readchar"
  /\ UNCHANGED <<robotvars, navvars, running, mode, st_pc, is_exploring, demo>>

\* keys q, e: robot_action enters self.robot.do_action
KbAction ==
  /\ kb_pc = "readchar" /\ running
  /\ kb_pc' = "action"
  /\ UNCHANGED <<robotvars, navvars, running, mode, st_pc, is_exploring, demo>>

\* robot_action: do_action has returned
KbActed ==
  /\ kb_pc = "action"
  /\ kb_pc' = "readchar"
  /\ UNCHANGED <<robotvars, navvars, running, mode, st_pc, is_exploring, demo>>

\* key r: take_radiation_reading enters self.robot.collect_radiation_sample(3)
KbSample ==
  /\ kb_pc = "readchar" /\ running
  /\ mode' = "Sampling"
  /\ kb_pc' = "sample"
  /\ UNCHANGED <<robotvars, navvars, running, st_pc, is_exploring, demo>>

\* take_radiation_reading: the dwell has returned; self.update_status() is entered
KbSampled ==
  /\ kb_pc = "sample"
  /\ mode' = "Manual"
  /\ kb_pc' = "status"
  /\ UNCHANGED <<robotvars, navvars, running, st_pc, is_exploring, demo>>

\* key SPACE: run_demo_mode starts a thread on self.robot.demo_mode
KbDemo ==
  /\ kb_pc = "readchar" /\ running
  /\ \E t \in 1..MaxDemos :
       /\ demo[t].pc = "none"
       /\ \A u \in 1..(t - 1) : demo[u].pc # "none"
       /\ demo' = [demo EXCEPT ![t].pc = "start"]
  /\ mode' = "Demo"
  /\ UNCHANGED <<robotvars, navvars, running, kb_pc, st_pc, is_exploring>>

\* key ESC: stop() clears self.running and enters self.robot.do_action('sit')
KbStop ==
  /\ kb_pc = "readchar" /\ running
  /\ running' = FALSE
  /\ kb_pc' = "sit"
  /\ UNCHANGED <<robotvars, navvars, mode, st_pc, is_exploring, demo>>

\* stop() has returned, the keyboard loop breaks and main() ends; the status
\* thread and the demo threads are daemon threads and end with the process
KbExit ==
  /\ kb_pc = "sit"
  /\ kb_pc' = "exit"
  /\ st_pc' = "exit"
  /\ demo' = [t \in 1..MaxDemos |->
               IF demo[t].pc = "none" THEN NoDemo ELSE [NoDemo EXCEPT !.pc = "done"]]
  /\ UNCHANGED <<robotvars, navvars, running, mode, is_exploring>>

\* ------------------------------------------------- RadiationBot.demo_mode
\* the grid point after (row, col) in explore_grid's two loops
AfterPoint(d) ==
  IF d.col < GridSize - 1 THEN [d EXCEPT !.pc = "point", !.col = d.col + 1, !.k = 0]
  ELSE IF d.row < GridSize - 1 THEN [d EXCEPT !.pc = "point", !.row = d.row + 1, !.col = 0, !.k = 0]
  ELSE [d EXCEPT !.pc = "explored", !.row = 0, !.col = 0, !.k = 0]

\* the break out of the column loop: the next row, or the end of the row loop
AfterBreak(d) ==
  IF d.row < GridSize - 1 THEN [d EXCEPT !.pc = "point", !.row = d.row + 1, !.col = 0]
  ELSE [d EXCEPT !.pc = "explored", !.row = 0, !.col = 0]

\* explore_grid: self.is_exploring = True
DemoExplore(t) ==
  /\ demo[t].pc = "start"
  /\ is_exploring' = TRUE
  /\ demo' = [demo EXCEPT ![t].pc = "point"]
  /\ UNCHANGED <<robotvars, navvars, running, mode, kb_pc, st_pc>>

\* explore_grid: if not self.is_exploring: break; else collect_radiation_sample(2) is entered
DemoPoint(t) ==
  /\ demo[t].pc = "point"
  /\ LET d == demo[t]
     IN  demo' = [demo EXCEPT ![t] = IF is_exploring THEN [d EXCEPT !.pc = "scan_dwell"]
                                     ELSE AfterBreak(d)]
  /\ UNCHANGED <<robotvars, navvars, running, mode, kb_pc, st_pc, is_exploring>>

\* explore_grid: the dwell has returned; the first move_and_track to the next point is entered
DemoScanned(t) ==
  /\ demo[t].pc = "scan_dwell"
  /\ LET d == demo[t]
     IN  demo' = [demo EXCEPT ![t] =
                    IF d.col < GridSize - 1 THEN [d EXCEPT !.pc = "scan_move", !.k = 1]
                    ELSE IF d.row < GridSize - 1 THEN [d EXCEPT !.pc = "scan_move", !.k = 3]
                    ELSE AfterPoint(d)]
  /\ UNCHANGED <<robotvars, navvars, running, mode, kb_pc, st_pc, is_exploring>>

\* explore_grid: a move_and_track has returned; the next one, or the next grid point
DemoScanMoved(t) ==
  /\ demo[t].pc = "scan_move"
  /\ LET d == demo[t]
     IN  demo' = [demo EXCEPT ![t] = IF d.k > 1 THEN [d EXCEPT !.k = d.k - 1]
                                     ELSE AfterPoint(d)]
  /\ UNCHANGED <<robotvars, navvars, running, mode, kb_pc, st_pc, is_exploring>>

\* explore_grid: self.is_exploring = False; find_radiation_source enters collect_radiation_sample(2)
DemoExplored(t) ==
  /\ demo[t].pc = "explored"
  /\ is_exploring' = FALSE
  /\ demo' = [demo EXCEPT ![t].pc = "seek_dwell"]
  /\ UNCHANGED <<robotvars, navvars, running, mode, kb_pc, st_pc>>

\* find_radiation_source: steps_taken = 0; the loop enters move_and_track('forward', 1)
DemoSeek(t) ==
  /\ demo[t].pc = "seek_dwell"
  /\ demo' = [demo EXCEPT ![t].pc = "probe_move", ![t].steps = 0]
  /\ UNCHANGED <<robotvars, navvars, running, mode, kb_pc, st_pc, is_exploring>>

\* find_radiation_source: the move has returned; collect_radiation_sample(1) is entered
DemoProbe(t) ==
  /\ demo[t].pc = "probe_move"
  /\ demo' = [demo EXCEPT ![t].pc = "probe_dwell"]
  /\ UNCHANGED <<robotvars, navvars, running, mode, kb_pc, st_pc, is_exploring>>

\* find_radiation_source: test_radiation > best_radiation, or not; the move back is entered
DemoProbed(t) ==
  /\ demo[t].pc = "probe_dwell"
  /\ \E better \in BOOLEAN :
       demo' = [demo EXCEPT ![t].pc = "probe_back", ![t].best = better]
  /\ UNCHANGED <<robotvars, navvars, running, mode, kb_pc, st_pc, is_exploring>>

\* find_radiation_source: the move back has returned; the first of four right turns is entered
DemoBacked(t) ==
  /\ demo[t].pc = "probe_back"
  /\ demo' = [demo EXCEPT ![t].pc = "probe_turn", ![t].k = 4]
  /\ UNCHANGED <<robotvars, navvars, running, mode, kb_pc, st_pc, is_exploring>>

\* find_radiation_source: a turn has returned; the next one, then the move toward
\* the source if the probe was better, else the loop breaks
DemoTurned(t) ==
  /\ demo[t].pc = "probe_turn"
  /\ LET d == demo[t]
     IN  demo' = [demo EXCEPT ![t] =
                    IF d.k > 1 THEN [d EXCEPT !.k = d.k - 1]
                    ELSE IF d.best THEN [d EXCEPT !.pc = "seek_move", !.k = 0, !.best = FALSE]
                    ELSE [d EXCEPT !.pc = "sit", !.k = 0, !.steps = 0]]
  /\ UNCHANGED <<robotvars, navvars, running, mode, kb_pc, st_pc, is_exploring>>

\* find_radiation_source: steps_taken += 1; while steps_taken < max_steps;
\* demo_mode: after the search, finally self.do_action('sit') is entered
DemoSeekMoved(t) ==
  /\ demo[t].pc = "seek_move"
  /\ LET d == demo[t]
     IN  demo' = [demo EXCEPT ![t] =
                    IF d.steps + 1 < SeekMaxSteps
                    THEN [d EXCEPT !.pc = "probe_move", !.steps = d.steps + 1]
                    ELSE [d EXCEPT !.pc = "sit", !.steps = 0]]
  /\ UNCHANGED <<robotvars, navvars, running, mode, kb_pc, st_pc, is_exploring>>

\* demo_mode: do_action('sit') has returned and the thread ends
DemoDone(t) ==
  /\ demo[t].pc = "sit"
  /\ demo' = [demo EXCEPT ![t] = [NoDemo EXCEPT !.pc = "done"]]
  /\ UNCHANGED <<robotvars, navvars, running, mode, kb_pc, st_pc, is_exploring>>

\* the operations of the robot a thread is inside
DemoOps == {"scan_dwell", "scan_move", "seek_dwell", "probe_move", "probe_dwell",
            "probe_back", "probe_turn", "seek_move", "sit"}
KeyboardOps == {"move", "status", "sample", "action", "sit"}
OnRobot ==
  (IF st_pc = "update" THEN 1 ELSE 0)
  + (IF kb_pc \in KeyboardOps THEN 1 ELSE 0)
  + Cardinality({t \in 1..MaxDemos : demo[t].pc \in DemoOps})

\* ---------------------------------------- PositionTracker in double precision
\* Python's float is an IEEE 754 double: every sum, difference and product is
\* rounded to a significand of 53 bits, ties to even.  A double is written here
\* as its sign and its magnitude, the magnitude as a whole number of units of
\* 2^(-Scale), in Places digits of base 2^15, the lowest digit first.  Every
\* double the tracker computes is a whole multiple of the unit.
Scale == 2 * Significand
Base == 2 ^ 15
Places == Scale \div 15 + 2

\* the digits f[i], f[i + 1], ... as a tuple
RECURSIVE Written(_, _)
Written(f, i) == IF i > Places THEN <<>> ELSE <<f[i]>> \o Written(f, i + 1)

\* the magnitudes 0 and 2^p units
MagZero == Written([i \in 1..Places |-> 0], 1)
Pow2(p) == Written([i \in 1..Places |-> IF i = p \div 15 + 1 THEN 2 ^ (p % 15) ELSE 0], 1)

FZero == [neg |-> FALSE, mag |-> MagZero]

\* A + B from digit i upward, with a carry coming in
RECURSIVE AddFrom(_, _, _, _)
AddFrom(A, B, i, carry) ==
  IF i > Places THEN <<>>
  ELSE LET s == A[i] + B[i] + carry
       IN  <<s % Base>> \o AddFrom(A, B, i + 1, s \div Base)

\* the exact sum of two magnitudes
MagAdd(A, B) == AddFrom(A, B, 1, 0)

\* A - B from digit i upward, with a borrow coming in
RECURSIVE SubFrom(_, _, _, _)
SubFrom(A, B, i, borrow) ==
  IF i > Places THEN <<>>
  ELSE LET s == A[i] - B[i] - borrow
       IN  <<(s + Base) % Base>> \o SubFrom(A, B, i + 1, IF s < 0 THEN 1 ELSE 0)

\* the exact difference of two magnitudes, A >= B
MagSub(A, B) == SubFrom(A, B, 1, 0)

\* A < B
MagLt(A, B) ==
  \E i \in 1..Places : A[i] < B[i] /\ \A j \in (i + 1)..Places : A[j] = B[j]

\* n * A from digit i upward, with a carry coming in
RECURSIVE TimesFrom(_, _, _, _)
TimesFrom(n, A, i, carry) ==
  IF i > Places THEN <<>>
  ELSE LET s == n * A[i] + carry
       IN  <<s % Base>> \o TimesFrom(n, A, i + 1, s \div Base)

\* the exact product of a natural number below 2^15 and a magnitude
MagTimes(n, A) == TimesFrom(n, A, 1, 0)

\* the position of the highest one bit of a magnitude that is not 0
Top(A) ==
  LET i == CHOOSE k \in 1..Places : A[k] # 0 /\ \A j \in (k + 1)..Places : A[j] = 0
      w == CHOOSE b \in 0..14 : 2 ^ b <= A[i] /\ A[i] < 2 ^ (b + 1)
  IN  15 * (i - 1) + w

\* the magnitude with its bits below position cut cleared
Truncated(A, cut) ==
  Written([i \in 1..Places |->
             IF i < cut \div 15 + 1 THEN 0
             ELSE IF i = cut \div 15 + 1 THEN A[i] - (A[i] % (2 ^ (cut % 15)))
             ELSE A[i]], 1)

\* the magnitude rounded to a significand of n bits, ties to even
RoundTo(A, n) ==
  IF A = MagZero \/ Top(A) < n THEN A
  ELSE LET cut == Top(A) - n + 1
           kept == Truncated(A, cut)
           rest == MagSub(A, kept)
           half == Pow2(cut - 1)
           odd == (A[cut \div 15 + 1] \div (2 ^ (cut % 15))) % 2 = 1
       IN  IF MagLt(half, rest) \/ (rest = half /\ odd)
           THEN MagAdd(kept, Pow2(cut)) ELSE kept

\* the rounding of a double
Round(A) == RoundTo(A, Significand)

\* a + b, rounded (a sum that is 0 is +0.0, which equals -0.0)
FAdd(a, b) ==
  IF a.neg = b.neg THEN [neg |-> a.neg, mag |-> Round(MagAdd(a.mag, b.mag))]
  ELSE IF a.mag = b.mag THEN FZero
  ELSE IF MagLt(a.mag, b.mag) THEN [neg |-> b.neg, mag |-> Round(MagSub(b.mag, a.mag))]
  ELSE [neg |-> a.neg, mag |-> Round(MagSub(a.mag, b.mag))]

\* a subtraction that adds
FSubSignLost(a, b) == FAdd(a, b)

\* a - b, rounded
FSub(a, b) == FAdd(a, [b EXCEPT !.neg = ~b.neg /\ b.mag # MagZero])

\* n * c, rounded, for a natural number n
FTimes(n, c) ==
  IF n = 0 \/ c.mag = MagZero THEN FZero
  ELSE [neg |-> c.neg, mag |-> Round(MagTimes(n, c.mag))]

\* the hexadecimal digits f[j], f[j + 1], ... of a significand whose last digit
\* stands at position low
RECURSIVE Hex(_, _, _)
Hex(f, j, low) ==
  IF j > Len(f) THEN MagZero
  ELSE MagAdd(MagTimes(f[j], Pow2(low + 4 * (Len(f) - j))), Hex(f, j + 1, low))

\* the double 1.f * 2^exp (with the sign neg), f given as 13 hexadecimal digits
Double(neg, exp, f) ==
  [neg |-> neg,
   mag |-> MagAdd(Pow2(exp + Scale), Hex(f, 1, exp + Scale - 4 * Len(f)))]

\* math.cos(math.radians(h)), as the C library computes it for the eight headings
CosDouble(h) ==
  CASE h =   0 -> Double(FALSE, 0, <<0, 0, 0, 0, 0, 0, 0, 0, 0, 0, 0, 0, 0>>)      \* 0x1.0000000000000p+0
    [] h =  45 -> Double(FALSE, -1, <<6, 10, 0, 9, 14, 6, 6, 7, 15, 3, 11, 12, 13>>) \* 0x1.6a09e667f3bcdp-1
    [] h =  90 -> Double(FALSE, -54, <<1, 10, 6, 2, 6, 3, 3, 1, 4, 5, 12, 0, 7>>)  \* 0x1.1a62633145c07p-54
    [] h = 135 -> Double(TRUE, -1, <<6, 10, 0, 9, 14, 6, 6, 7, 15, 3, 11, 12, 12>>) \* -0x1.6a09e667f3bccp-1
    [] h = 180 -> Double(TRUE, 0, <<0, 0, 0, 0, 0, 0, 0, 0, 0, 0, 0, 0, 0>>)       \* -0x1.0000000000000p+0
    [] h = 225 -> Double(TRUE, -1, <<6, 10, 0, 9, 14, 6, 6, 7, 15, 3, 11, 12, 14>>) \* -0x1.6a09e667f3bcep-1
    [] h = 270 -> Double(TRUE, -53, <<10, 7, 9, 3, 9, 4, 12, 9, 14, 8, 10, 0, 10>>) \* -0x1.a79394c9e8a0ap-53
    [] h = 315 -> Double(FALSE, -1, <<6, 10, 0, 9, 14, 6, 6, 7, 15, 3, 11, 12, 11>>) \* 0x1.6a09e667f3bcbp-1

\* math.sin(math.radians(h)), as the C library computes it for the eight headings
SinDouble(h) ==
  CASE h =   0 -> FZero                                                            \* 0x0.0p+0
    [] h =  45 -> Double(FALSE, -1, <<6, 10, 0, 9, 14, 6, 6, 7, 15, 3, 11, 12, 12>>) \* 0x1.6a09e667f3bccp-1
    [] h =  90 -> Double(FALSE, 0, <<0, 0, 0, 0, 0, 0, 0, 0, 0, 0, 0, 0, 0>>)      \* 0x1.0000000000000p+0
    [] h = 135 -> Double(FALSE, -1, <<6, 10, 0, 9, 14, 6, 6, 7, 15, 3, 11, 12, 13>>) \* 0x1.6a09e667f3bcdp-1
    [] h = 180 -> Double(FALSE, -53, <<1, 10, 6, 2, 6, 3, 3, 1, 4, 5, 12, 0, 7>>)  \* 0x1.1a62633145c07p-53
    [] h = 225 -> Double(TRUE, -1, <<6, 10, 0, 9, 14, 6, 6, 7, 15, 3, 11, 12, 12>>) \* -0x1.6a09e667f3bccp-1
    [] h = 270 -> Double(TRUE, 0, <<0, 0, 0, 0, 0, 0, 0, 0, 0, 0, 0, 0, 0>>)       \* -0x1.0000000000000p+0
    [] h = 315 -> Double(TRUE, -1, <<6, 10, 0, 9, 14, 6, 6, 7, 15, 3, 11, 12, 14>>) \* -0x1.6a09e667f3bcep-1

\* ------------------------------------------- PositionTracker.update_position
\* the tracker's fields as one value
Pose == [x |-> x, y |-> y, heading |-> heading]

\* a tracker whose turns also carry the robot along its heading
update_position_drifting(p, action, steps) ==
  LET distance == steps * StepSize
      dx == SScale(distance, Cos(p.heading))
      dy == SScale(distance, Sin(p.heading))
      q == CASE action = "forward" -> [p EXCEPT !.x = SAdd(p.x, dx), !.y = SAdd(p.y, dy)]
             [] action = "backward" -> [p EXCEPT !.x = SSub(p.x, dx), !.y = SSub(p.y, dy)]
             [] action = "turn left" -> [p EXCEPT !.heading = p.heading + TurnAngle * steps,
                                                 !.x = SAdd(p.x, dx), !.y = SAdd(p.y, dy)]
             [] action = "turn right" -> [p EXCEPT !.heading = p.heading - TurnAngle * steps,
                                                  !.x = SAdd(p.x, dx), !.y = SAdd(p.y, dy)]
             [] OTHER -> p
  IN  [q EXCEPT !.heading = q.heading % FullTurn]

\* a heading left as the addition or subtraction made it
Unnormalized(h) == h

\* self.heading = self.heading % 360
Normalized(h) == h % FullTurn

\* the headings a tracker can have
Headings == {TurnAngle * k : k \in 0 .. (FullTurn \div TurnAngle) - 1}

\* the step counts explored: 0 .. MaxSteps and the 8 steps of a full turn
StepCounts == (0..MaxSteps) \cup {FullTurn \div TurnAngle}

\* distance * math.cos(math.radians(self.heading)) and
\* distance * math.sin(math.radians(self.heading)), for distance = steps * step_size,
\* worked out once for each heading and step count
Displacement ==
  [h \in Headings |->
    [steps \in StepCounts |->
      [dx |-> FTimes(steps * StepSize, CosDouble(h)),
       dy |-> FTimes(steps * StepSize, SinDouble(h))]]]

\* the pose after update_position(action, steps) on pose p, x and y being doubles
update_position_double(p, action, steps) ==
  LET dx == Displacement[p.heading][steps].dx
      dy == Displacement[p.heading][steps].dy
      q == CASE action = "forward" -> [p EXCEPT !.x = FAdd(p.x, dx), !.y = FAdd(p.y, dy)]
             [] action = "backward" -> [p EXCEPT !.x = FSub(p.x, dx), !.y = FSub(p.y, dy)]
             [] action = "turn left" -> [p EXCEPT !.heading = p.heading + TurnAngle * steps]
             [] action = "turn right" -> [p EXCEPT !.heading = p.heading - TurnAngle * steps]
             [] OTHER -> p
  IN  [q EXCEPT !.heading = Normalized(q.heading)]

\* the pose after update_position(action, steps) on pose p
update_position(p, action, steps) ==
  LET distance == steps * StepSize
      dx == SScale(distance, Cos(p.heading))
      dy == SScale(distance, Sin(p.heading))
      q == CASE action = "forward" -> [p EXCEPT !.x = SAdd(p.x, dx), !.y = SAdd(p.y, dy)]
             [] action = "backward" -> [p EXCEPT !.x = SSub(p.x, dx), !.y = SSub(p.y, dy)]
             [] action = "turn left" -> [p EXCEPT !.heading = p.heading + TurnAngle * steps]
             [] action = "turn right" -> [p EXCEPT !.heading = p.heading - TurnAngle * steps]
             [] OTHER -> p
  IN  [q EXCEPT !.heading = q.heading % FullTurn]

\* ------------------------------ RadiationBot: moves and dwells of an operation
\* one call self.move_and_track(action, steps)
Call(action, steps) == [action |-> action, steps |-> steps]

\* the average reading of a dwell, as the sensor may produce it
Levels == {RInt(l) : l \in 0..MaxLevel}

\* what collect_radiation_sample stores and returns when its average reading is
\* avg_reading: the data point (without the raw lists), the heat map bin and the
\* running maximum.  The dose conversion is linear on readings that are not
\* negative, so the average dose is the conversion of the average reading.
Dwell(kind, avg_reading) ==
  LET data_point == [position |-> <<x, y>>, heading |-> heading,
                     radiation_cpm |-> avg_reading,
                     radiation_microsieverts |-> convert_to_microsieverts(avg_reading)]
  IN  /\ radiation_data' = Append(radiation_data, data_point)
      /\ heatmap_data' = BinAppend(heatmap_data, <<RoundBin(x), RoundBin(y)>>, avg_reading)
      /\ IF ExceedsMaximum(avg_reading, max_radiation)
         THEN /\ max_radiation' = avg_reading
              /\ max_radiation_pos' = <<x, y>>
         ELSE UNCHANGED <<max_radiation, max_radiation_pos>>
      /\ trail' = Append(trail, [e |-> "sample", kind |-> kind, pose |-> Pose,
                                 row |-> nav.row, col |-> nav.col,
                                 iter |-> nav.steps_taken])

\* the pose, were it updated before do_action is called
TrackedAhead(completed) == TRUE

\* the pose is updated once do_action has returned
Tracked(completed) == completed

\* move_and_track: do_action returns and the tracker is updated, or do_action
\* raises and the exception leaves the operation
Move ==
  /\ nav.pc \notin {"idle", "done", "raised", "parked"}
  /\ nav.todo # <<>>
  /\ LET c == Head(nav.todo)
     IN  \E completed \in BOOLEAN :
           /\ LET p == IF Tracked(completed)
                       THEN update_position(Pose, c.action, c.steps) ELSE Pose
              IN  /\ x' = p.x /\ y' = p.y /\ heading' = p.heading
           /\ IF completed
              THEN /\ nav' = [nav EXCEPT !.todo = Tail(nav.todo)]
                   /\ trail' = Append(trail, [e |-> "move", action |-> c.action,
                                              steps |-> c.steps])
              ELSE /\ nav' = [nav EXCEPT !.pc = "raised", !.todo = <<>>]
                   /\ trail' = Append(trail, [e |-> "failed", action |-> c.action,
                                              steps |-> c.steps])
  /\ UNCHANGED <<now, sensor, cbvars, qvars, cvars, hist, hubvars,
                 radiation_data, heatmap_data, max_radiation, max_radiation_pos>>

\* the caller's finally clause after the exception: self.do_action('sit')
CallerPark ==
  /\ nav.pc = "raised"
  /\ nav' = [nav EXCEPT !.pc = "parked"]
  /\ UNCHANGED <<robotvars, hubvars, trail>>

\* self.is_exploring cleared from outside the exploring thread
StopSignal ==
  /\ nav.op = "scan"
  /\ nav.pc \notin {"done", "raised", "parked"}
  /\ is_exploring
  /\ is_exploring' = FALSE
  /\ nav' = [nav EXCEPT !.stopped = TRUE]
  /\ UNCHANGED <<robotvars, running, mode, kb_pc, st_pc, demo, trail>>

\* ------------------------------------------------ RadiationBot.explore_grid
\* the loop variables after the cell at (row, col), by the two for statements
NextCell(row, col, n) ==
  IF col + 1 < n THEN [pc |-> "cell", row |-> row, col |-> col + 1]
  ELSE IF row + 1 < n THEN [pc |-> "cell", row |-> row + 1, col |-> 0]
  ELSE [pc |-> "scan_end", row |-> row, col |-> col]

\* the loop variables after break at (row, col): the column loop is left
NextRow(row, col, n) ==
  IF row + 1 < n THEN [pc |-> "cell", row |-> row + 1, col |-> 0]
  ELSE [pc |-> "scan_end", row |-> row, col |-> col]

\* the test, were the flag not consulted
NeverCancelled(flag) == FALSE

\* if not self.is_exploring
Cancelled(flag) == ~flag

\* the moves after the dwell at (row, col), were the last row to turn like the others
CellMovesPastEnd(row, col, n, d) ==
  IF col < n - 1 THEN <<Call("forward", d)>>
  ELSE IF row % 2 = 0
       THEN <<Call("turn right", 1), Call("forward", d), Call("turn right", 1)>>
       ELSE <<Call("turn left", 1), Call("forward", d), Call("turn left", 1)>>

\* the moves after the dwell at (row, col)
CellMoves(row, col, n, d) ==
  IF col < n - 1 THEN <<Call("forward", d)>>
  ELSE IF row < n - 1
       THEN IF row % 2 = 0
            THEN <<Call("turn right", 1), Call("forward", d), Call("turn right", 1)>>
            ELSE <<Call("turn left", 1), Call("forward", d), Call("turn left", 1)>>
       ELSE <<>>

\* explore_grid(grid_size, step_distance) is entered: self.is_exploring = True
ExploreGrid(grid_size, step_distance) ==
  /\ nav.pc = "idle"
  /\ is_exploring' = TRUE
  /\ nav' = [Entered EXCEPT !.op = "scan",
                          !.pc = IF grid_size > 0 THEN "cell" ELSE "scan_end",
                          !.grid_size = grid_size, !.step_distance = step_distance,
                          !.start = Pose]
  /\ trail' = <<>>
  /\ UNCHANGED <<robotvars, running, mode, kb_pc, st_pc, demo>>

\* the test of self.is_exploring at a grid point, and the break
ScanCell ==
  /\ nav.pc = "cell"
  /\ nav.todo = <<>>
  /\ IF Cancelled(is_exploring)
     THEN LET n == NextRow(nav.row, nav.col, nav.grid_size)
          IN  nav' = [nav EXCEPT !.pc = n.pc, !.row = n.row, !.col = n.col,
                                 !.late = nav.late \/ nav.stopped]
     ELSE nav' = [nav EXCEPT !.pc = "sample", !.late = nav.late \/ nav.stopped]
  /\ UNCHANGED <<robotvars, hubvars, trail>>

\* radiation = self.collect_radiation_sample(2), and the moves are decided
ScanSample ==
  /\ nav.pc = "sample"
  /\ \E avg_reading \in Levels :
       /\ avg_reading # Zero => nav.hot < MaxHot
       /\ Dwell("cell", avg_reading)
       /\ nav' = [nav EXCEPT !.pc = "next",
                             !.hot = IF avg_reading # Zero THEN nav.hot + 1 ELSE nav.hot,
                             !.todo = CellMoves(nav.row, nav.col, nav.grid_size,
                                                nav.step_distance)]
  /\ UNCHANGED <<now, sensor, cbvars, qvars, cvars, hist, hubvars, x, y, heading>>

\* the for statements take the next grid point
ScanNext ==
  /\ nav.pc = "next"
  /\ nav.todo = <<>>
  /\ LET n == NextCell(nav.row, nav.col, nav.grid_size)
     IN  nav' = [nav EXCEPT !.pc = n.pc, !.row = n.row, !.col = n.col]
  /\ UNCHANGED <<robotvars, hubvars, trail>>

\* self.is_exploring = False; return self.radiation_data
ScanEnd ==
  /\ nav.pc = "scan_end"
  /\ is_exploring' = FALSE
  /\ nav' = [nav EXCEPT !.pc = "done"]
  /\ UNCHANGED <<robotvars, running, mode, kb_pc, st_pc, demo, trail>>

\* ----------------------------------------- RadiationBot.find_radiation_source
\* find_radiation_source(max_steps) is entered
FindRadiationSource(max_steps) ==
  /\ nav.pc = "idle"
  /\ nav' = [Entered EXCEPT !.op = "seek", !.pc = "base", !.max_steps = max_steps,
                          !.start = Pose]
  /\ trail' = <<>>
  /\ UNCHANGED <<robotvars, hubvars>>

\* current_radiation = self.collect_radiation_sample(2); steps_taken = 0
SeekBase ==
  /\ nav.pc = "base"
  /\ \E avg_reading \in Levels :
       /\ Dwell("base", avg_reading)
       /\ nav' = [nav EXCEPT !.pc = "loop", !.current_radiation = avg_reading,
                             !.steps_taken = 0]
  /\ UNCHANGED <<now, sensor, cbvars, qvars, cvars, hist, hubvars, x, y, heading>>

\* the while test, were it to admit one more iteration
WithinBudgetOrEqual(steps_taken, max_steps) == steps_taken <= max_steps

\* while steps_taken < max_steps
WithinBudget(steps_taken, max_steps) == steps_taken < max_steps

\* the while test; an iteration begins with the first direction, 'forward'
SeekLoop ==
  /\ nav.pc = "loop"
  /\ nav.todo = <<>>
  /\ IF WithinBudget(nav.steps_taken, nav.max_steps)
     THEN nav' = [nav EXCEPT !.pc = "probe", !.best_direction = "None",
                             !.best_radiation = nav.current_radiation,
                             !.todo = <<Call("forward", 1)>>,
                             !.start = Pose,
                             !.begun_stopped = nav.stopped]
     ELSE nav' = [nav EXCEPT !.pc = "seek_end"]
  /\ UNCHANGED <<robotvars, hubvars, trail>>

\* the comparison, were an equal probe to count
ImprovesOrEqual(test_radiation, best_radiation) == RLe(best_radiation, test_radiation)

\* if test_radiation > best_radiation
Improves(test_radiation, best_radiation) == RLt(best_radiation, test_radiation)

\* test_radiation = self.collect_radiation_sample(1), the comparison; then move
\* back, turn right, and the three 'turn right' directions of the for statement
SeekProbe ==
  /\ nav.pc = "probe"
  /\ nav.todo = <<>>
  /\ \E test_radiation \in Levels :
       /\ Dwell("probe", test_radiation)
       /\ LET better == Improves(test_radiation, nav.best_radiation)
          IN  nav' = [nav EXCEPT
                        !.pc = "eval",
                        !.best_radiation = IF better THEN test_radiation ELSE @,
                        !.best_direction = IF better THEN "forward" ELSE @,
                        !.best_pose = IF better THEN Pose ELSE @,
                        !.todo = <<Call("backward", 1), Call("turn right", 1),
                                   Call("turn right", 1), Call("turn right", 1),
                                   Call("turn right", 1)>>]
  /\ UNCHANGED <<now, sensor, cbvars, qvars, cvars, hist, hubvars, x, y, heading>>

\* if best_direction: move forward 2; else the message and break
SeekEval ==
  /\ nav.pc = "eval"
  /\ nav.todo = <<>>
  /\ IF nav.best_direction # "None"
     THEN nav' = [nav EXCEPT !.pc = "advance", !.todo = <<Call("forward", Advance)>>]
     ELSE nav' = [nav EXCEPT !.pc = "seek_end",
                             !.said = "No improvement found, source likely found!"]
  /\ UNCHANGED <<robotvars, hubvars, trail>>

\* current_radiation = best_radiation; steps_taken += 1
SeekStep ==
  /\ nav.pc = "advance"
  /\ nav.todo = <<>>
  /\ nav' = [nav EXCEPT !.pc = "loop", !.current_radiation = nav.best_radiation,
                        !.previous_radiation = nav.current_radiation,
                        !.steps_taken = @ + 1]
  /\ UNCHANGED <<robotvars, hubvars, trail>>

\* the closing messages; the function returns None
SeekEnd ==
  /\ nav.pc = "seek_end"
  /\ nav' = [nav EXCEPT !.pc = "done"]
  /\ UNCHANGED <<robotvars, hubvars, trail>>

\* cancellation requested while find_radiation_source runs: PicrawlerControlHub.stop
\* clears hub.running, and self.is_exploring is already False
SeekStopSignal ==
  /\ nav.op = "seek"
  /\ nav.pc \notin {"done", "raised", "parked"}
  /\ ~nav.stopped
  /\ nav' = [nav EXCEPT !.stopped = TRUE,
                        !.mid_iteration = nav.pc \in {"probe", "eval", "advance"}]
  /\ UNCHANGED <<robotvars, hubvars, trail>>

\* ------------------------------------------------ radiation_control.main
\* In this part the console's command loop is the only thread: it reads a key
\* and runs its command to the end before it reads the next.
\* bot = RadiationBot(); print_menu(); the command loop is entered
ConsoleStart ==
  /\ nav.pc = "idle"
  /\ nav' = [Entered EXCEPT !.op = "console", !.pc = "key", !.start = Pose]
  /\ trail' = <<>>
  /\ UNCHANGED <<robotvars, hubvars>>

\* the keys 'w', 's', 'a' and 'd' and the calls of move_and_track they make
Bindings ==
  {Call("forward", 2), Call("backward", 2), Call("turn left", 1), Call("turn right", 1)}

\* the loop is at readchar
AtPrompt == nav.op = "console" /\ nav.pc = "key" /\ nav.todo = <<>> /\ pc = "idle"

\* ... and may read one more key
AwaitingKey == AtPrompt /\ Len(trail) < MaxKeys

\* 'w', 's', 'a', 'd': bot.move_and_track(action, steps, 60) is called
KeyMove ==
  /\ AwaitingKey
  /\ \E c \in Bindings : nav' = [nav EXCEPT !.todo = <<c>>]
  /\ UNCHANGED <<robotvars, hubvars, trail>>

\* 'q', 'e': bot.do_action('stand', 1, 80), bot.do_action('sit', 1, 80)
KeyPosture ==
  /\ AwaitingKey
  /\ \E action \in {"stand", "sit"} :
       trail' = Append(trail, [e |-> "posture", action |-> action, steps |-> 1])
  /\ UNCHANGED <<robotvars, hubvars, nav>>

\* 'r': radiation = bot.collect_radiation_sample(3)
KeySample ==
  /\ AwaitingKey
  /\ \E avg_reading \in Levels : Dwell("sample", avg_reading)
  /\ UNCHANGED <<now, sensor, cbvars, qvars, cvars, hist, hubvars, x, y, heading, nav>>

\* ESC: break; finally: bot.do_action('sit', 1, 80)
KeyQuit ==
  /\ AtPrompt
  /\ nav' = [nav EXCEPT !.pc = "parked"]
  /\ UNCHANGED <<robotvars, hubvars, trail>>

\* a rate query made between two commands: get_reading is called ...
ConsoleQuery == AtPrompt /\ Poll

\* ... and returns the reading it holds
ConsoleQueried == nav.op = "console" /\ GrEnter

\* ------------------------------------------- a PositionTracker on its own
\* In this part x and y are doubles, so that the rounding of every addition
\* and subtraction the tracker makes is part of what is explored.
\* the gait commands
Gaits == {"forward", "backward", "turn left", "turn right", "stand", "sit"}

\* tracker = PositionTracker(): self.x = 0, self.y = 0, self.heading = 0
TrackerStart ==
  /\ nav.pc = "idle"
  /\ x' = FZero /\ y' = FZero /\ heading' = 0
  /\ nav' = [Entered EXCEPT !.op = "tracker", !.pc = "apply"]
  /\ trail' = <<>>
  /\ UNCHANGED <<now, sensor, cbvars, qvars, cvars, hist, hubvars,
                 radiation_data, heatmap_data, max_radiation, max_radiation_pos>>

\* history: the round trip that the call of update_position(action, steps) on
\* pose p begins or completes, if any; trip is the one in progress
Trip(trip, p, action, steps) ==
  IF action = "forward" THEN <<[kind |-> "out", steps |-> steps, before |-> p]>>
  ELSE IF action = "backward" /\ trip # <<>> /\ trip[1].kind = "out" /\ trip[1].steps = steps
    THEN <<[kind |-> "back", steps |-> steps, before |-> trip[1].before, mid |-> p]>>
  ELSE IF action = "turn left" /\ steps = FullTurn \div TurnAngle
    THEN <<[kind |-> "full turn", steps |-> steps, before |-> p]>>
  ELSE <<>>

\* tracker.update_position(action, steps)
Apply(action, steps) ==
  /\ nav.op = "tracker"
  /\ nav.steps_taken < MaxApplies
  /\ LET p == update_position_double(Pose, action, steps)
     IN  x' = p.x /\ y' = p.y /\ heading' = p.heading
  /\ trail' = Trip(trail, Pose, action, steps)
  /\ nav' = [nav EXCEPT !.steps_taken = @ + 1]
  /\ UNCHANGED <<now, sensor, cbvars, qvars, cvars, hist, hubvars,
                 radiation_data, heatmap_data, max_radiation, max_radiation_pos>>

\* ----------------------------------------------------- paced pulse source
\* a generator that raises one pulse event every second, the first at second 1
PacedTick ==
  /\ delivered = now
  /\ Tick

PacedPulse ==
  /\ delivered < now
  /\ PulseStart

\* --------------------------------------------------------- specifications
\* the pulse callback against the control thread's rate queries and dwells
Next ==
  \/ Tick
  \/ DwellPulse \/ CbStore \/ CbAppend \/ CbFilter \/ CbAssign
  \/ Poll
  \/ GrEnter \/ GrLen \/ GrCompute \/ GrReset \/ GrRestart
  \/ CollectStart(ScanDwell)
  \/ CollectLoop \/ CollectRecord \/ CollectWake \/ CollectFinish

Spec == Init /\ [][Next]_vars

\* the pulse callback against bare rate queries, under a wall clock that may be set back
NextSensor ==
  \/ Tick
  \/ ClockStepBack
  \/ Pulse \/ CbStore \/ CbAppend \/ CbFilter \/ CbAssign
  \/ Poll
  \/ GrEnter \/ GrLen \/ GrCompute \/ GrReset \/ GrRestart

SpecSensor == Init /\ [][NextSensor]_vars

\* bare calls of get_reading and get_instant_cpm, with quiet minutes between them
NextWindow ==
  \/ Tick
  \/ QuietMinute
  \/ Pulse \/ CbStore \/ CbAppend \/ CbFilter \/ CbAssign
  \/ Poll \/ PollInstant
  \/ GrEnter \/ GrLen \/ GrCompute \/ GrReset \/ GrRestart

SpecWindow == Init /\ [][NextWindow]_vars

\* a default dwell and bare rate queries under the paced pulse source
NextPaced ==
  \/ PacedTick
  \/ PacedPulse \/ CbStore \/ CbAppend \/ CbFilter \/ CbAssign
  \/ Poll
  \/ GrEnter \/ GrLen \/ GrCompute \/ GrReset \/ GrRestart
  \/ CollectStart(DefaultDwell)
  \/ CollectLoop \/ CollectRecord \/ CollectWake \/ CollectFinish

SpecPaced == Init /\ [][NextPaced]_vars

\* the threads of the control hub
NextHub ==
  \/ HubStart
  \/ StLoop \/ StUpdated
  \/ KbMove \/ KbMoved \/ KbUpdated
  \/ KbAction \/ KbActed
  \/ KbSample \/ KbSampled
  \/ KbDemo
  \/ KbStop \/ KbExit
  \/ \E t \in 1..MaxDemos :
       \/ DemoExplore(t) \/ DemoPoint(t) \/ DemoScanned(t) \/ DemoScanMoved(t)
       \/ DemoExplored(t) \/ DemoSeek(t) \/ DemoProbe(t) \/ DemoProbed(t)
       \/ DemoBacked(t) \/ DemoTurned(t) \/ DemoSeekMoved(t) \/ DemoDone(t)

SpecHub == Init /\ [][NextHub]_vars

\* one control thread in explore_grid, with the flag cleared from outside and
\* the actuator free to fail
ScanThread == ScanCell \/ ScanSample \/ ScanNext \/ ScanEnd \/ Move \/ CallerPark

NextScan ==
  \/ \E grid_size \in 0..MaxGrid, step_distance \in 1..MaxStepDistance :
       ExploreGrid(grid_size, step_distance)
  \/ ScanThread
  \/ StopSignal

SpecScan == Init /\ [][NextScan]_vars

\* the thread inside explore_grid keeps running
SpecScanFair == SpecScan /\ WF_vars(ScanThread)

\* one control thread in find_radiation_source
SeekThread ==
  SeekBase \/ SeekLoop \/ SeekProbe \/ SeekEval \/ SeekStep \/ SeekEnd \/ Move \/ CallerPark

NextSeek ==
  \/ \E max_steps \in 0..MaxIterations : FindRadiationSource(max_steps)
  \/ SeekThread
  \/ SeekStopSignal

SpecSeek == Init /\ [][NextSeek]_vars

\* the thread inside find_radiation_source keeps running
SpecSeekFair == SpecSeek /\ WF_vars(SeekThread)

\* the console's command loop, with rate queries between its commands
NextConsole ==
  \/ ConsoleStart
  \/ KeyMove \/ KeyPosture \/ KeySample \/ KeyQuit
  \/ Move \/ CallerPark
  \/ ConsoleQuery \/ ConsoleQueried

SpecConsole == Init /\ [][NextConsole]_vars
\* a tracker driven by any gait command with any of the step counts
NextTracker ==
  \/ TrackerStart
  \/ \E action \in Gaits, steps \in StepCounts : Apply(action, steps)

SpecTracker == Init /\ [][NextTracker]_vars

\* ------------------------------------------------------------------ claims
ControlStep == pc' # pc
CallbackStep == cb_pc' # cb_pc

\* C1: no pulse is lost between the callback and a rate query: whenever both are
\* at rest, the counts that recomputations have used plus the count still pending
\* add up to the number of pulses delivered.
C1_NoPulseLost ==
  (cb_pc = "idle" /\ pc \in {"idle", "gr58"}) => consumed + pulse_count = delivered

\* C2: a recomputing rate query combines one snapshot.  Until the first reset
\* of a counter, with every pulse younger than 60 seconds, the pulse window and the
\* interval count hold the same pulses at every instant between callbacks; so
\* the window length the query takes equals the count it reads, and neither
\* holds a pulse stamped later than the time the query read.
C2_ConsistentSnapshot ==
  [][(pc = "gr68" /\ ControlStep /\ start_time = 0)
       => /\ q_len = pulse_count
          /\ \A t \in q_src \cup cnt_src : t <= q_time]_vars

\* a dwell is in progress / a demo thread is inside its scan or its seek
Dwelling ==
  \/ kb_pc = "sample"
  \/ \E t \in 1..MaxDemos : demo[t].pc \in {"scan_dwell", "seek_dwell", "probe_dwell"}
DemoRunning == \E t \in 1..MaxDemos : demo[t].pc \in DemoOps \ {"sit"}

\* C3: while a dwell or a demo's scan or seek is in progress, at most one thread is
\* inside an operation of the robot (a move, a dwell, a rate query, a posture action).
C3_OneThreadAtATime == (Dwelling \/ DemoRunning) => OnRobot <= 1

\* recorded timestamps younger than 60 seconds at time t
YoungCount(buf, t) == Len(Filtered(buf, t - Window))

\* C4: whenever get_reading takes the length of the pulse window, or the instant
\* count is read, the value is the number of recorded pulses younger than 60
\* seconds at that moment.
C4_WindowIsLastMinute ==
  [][/\ (pc = "gr63" /\ ControlStep) => q_len' = YoungCount(pulse_buffer, now)
     /\ (pc = "idle" /\ instant_cpm' # instant_cpm)
          => instant_cpm' = YoungCount(pulse_buffer, now)]_vars

\* C5: every reading a dwell records was computed only from pulses that arrived
\* after the dwell began.
C5_FreshReadings ==
  [][(pc = "c161" /\ ControlStep) => \A t \in est_src : t >= c_start]_vars

\* C6: a dwell during which no pulse arrives stores a Sample whose cpm and dose
\* rate are 0, whatever preceded the dwell.
C6_ZeroPulseDwell ==
  [][(pc = "c175" /\ ControlStep /\ ~d_pulses)
       => LET sample == radiation_data'[Len(radiation_data')]
          IN  /\ sample.radiation_cpm = Zero
              /\ sample.radiation_microsieverts = Zero]_vars

\* the stored dwell took the one reading a second of a 5-second dwell
FullDwell(sample) == Len(sample.readings) = DefaultDwell

\* C7: under one pulse per second, after a 5-second dwell begun on a fresh counter,
\* the first estimate that get_reading computes lies between 54 and 66.
C7_PacedRate ==
  [][(/\ pc = "gr68" /\ ControlStep /\ start_time = 0
      /\ radiation_data # <<>> /\ FullDwell(radiation_data[1]))
       => (RLe(RInt(54), last_reading') /\ RLe(last_reading', RInt(66)))]_vars

\* C8: a get_reading call made before reading_interval has elapsed since the last
\* recomputation returns at once with the stored estimate, which is the value the
\* previous call returned, and changes neither the interval pulse count, the
\* interval start time nor the stored estimate.
C8_StaleOnDemand ==
  [][(pc = "gr58" /\ ControlStep /\ now - start_time < ReadingInterval)
       => /\ pc' = "idle"
          /\ ret' = last_reading
          /\ (last_call # "none" => ret' = ret)
          /\ UNCHANGED <<pulse_count, start_time, last_reading>>]_vars

\* a second call in the same interval has returned the non-zero estimate of the first
C8_Witness == pc = "idle" /\ last_call = "stale" /\ RLt(Zero, ret) /\ pulse_count > 0

NonNegative(v) == RLe(Zero, v)

\* C10: every value get_reading returns, and the dose rate converted from it, is
\* at least 0, under every interleaving of pulses, rate queries and dwells.
C10_NonNegative ==
  /\ NonNegative(last_reading) /\ NonNegative(ret)
  /\ NonNegative(convert_to_microsieverts(ret))
  /\ \A i \in DOMAIN readings : NonNegative(readings[i])
  /\ \A i \in DOMAIN usv_readings : NonNegative(usv_readings[i])
  /\ \A i \in DOMAIN radiation_data :
       /\ NonNegative(radiation_data[i].radiation_cpm)
       /\ NonNegative(radiation_data[i].radiation_microsieverts)

\* a dwell has recorded a positive reading and its positive dose rate
C10_Witness ==
  /\ readings # <<>> /\ RLt(Zero, readings[1]) /\ RLt(Zero, usv_readings[1])
  /\ last_call = "fresh" /\ ret = readings[1]

\* ------------------------------------------------- claims on explore_grid
\* the dwells in a trail
Samples(t) == {i \in DOMAIN t : t[i].e = "sample"}

\* the commands a trail has sent to the actuator
Commands(t) == {i \in DOMAIN t : t[i].e \in {"move", "failed"}}

\* explore_grid or find_radiation_source has returned or raised
Ended == nav.pc \in {"done", "raised", "parked"}

\* explore_grid has returned with the flag never cleared from outside
ScanCompleted == nav.op = "scan" /\ nav.pc = "done" /\ ~nav.stopped

\* C11: an exploration of an N x N grid that is not cancelled stores exactly
\* N * N samples, issues no move after the dwell of the last grid point, and
\* ends (an exploration that was entered always returns or raises).
C11_FullScan ==
  /\ [](ScanCompleted =>
         /\ Len(radiation_data) = nav.grid_size * nav.grid_size
         /\ Cardinality(Samples(trail)) = nav.grid_size * nav.grid_size
         /\ trail # <<>> => trail[Len(trail)].e = "sample")
  /\ ((nav.op = "scan") ~> Ended)

C11_Witness ==
  ScanCompleted /\ nav.grid_size = 3 /\ Len(radiation_data) = 9 /\ Len(trail) = 21

\* the heading along row r of a serpentine sweep begun at heading h
RowHeading(h, r) == (h + 180 * (r % 2)) % FullTurn

\* C12: every grid point of an exploration is sampled on a rectangular lattice in
\* serpentine order: the rows are parallel, consecutive rows are traversed in
\* opposite directions (a quarter turn, an advance and a second quarter turn at
\* each row end), and no two samples are taken at the same place.
C12_Serpentine ==
  nav.op = "scan" =>
    /\ \A i \in Samples(trail) :
         trail[i].pose.heading = RowHeading(nav.start.heading, trail[i].row)
    /\ \A i, j \in Samples(trail) :
         i # j => <<trail[i].pose.x, trail[i].pose.y>> # <<trail[j].pose.x, trail[j].pose.y>>

\* C13: once a grid point's test of the flag has come after the stop signal, the
\* exploration takes no further sample and issues no further move; it ends; and
\* no step of an exploration alters a sample already stored.
C13_StopHonoured ==
  /\ [][(nav.op = "scan" /\ nav.late) =>
           /\ trail' = trail
           /\ radiation_data' = radiation_data
           /\ Pose' = Pose]_vars
  /\ [][nav.op = "scan" =>
           SubSeq(radiation_data', 1, Len(radiation_data)) = radiation_data]_vars
  /\ ((nav.op = "scan" /\ nav.stopped) ~> Ended)

C13_Witness ==
  /\ nav.op = "scan" /\ nav.pc = "done" /\ nav.late
  /\ nav.grid_size = 3 /\ Len(radiation_data) = 2

\* ----------------------------------------- claims on find_radiation_source
\* the probe dwells of the iteration in progress
Probes == {i \in Samples(trail) : trail[i].kind = "probe" /\ trail[i].iter = nav.steps_taken}

\* the directions of an iteration have all been tried
Evaluating == nav.op = "seek" /\ nav.pc = "eval" /\ nav.todo = <<>>

\* the pose one step forward from pose p after k quarter turns to the right
Ahead(p, k) ==
  update_position([p EXCEPT !.heading = (p.heading - 90 * k) % FullTurn], "forward", 1)

\* C14: when the directions of a seek iteration have been tried, exactly four
\* probe samples have been taken in it, one at each of the headings h, h - 90,
\* h - 180 and h - 270 (h the heading when the iteration began), each of them one
\* step forward along its heading from the position where the iteration began.
C14_FourProbes ==
  Evaluating =>
    /\ Cardinality(Probes) = 4
    /\ \A k \in 0..3 : \E i \in Probes : trail[i].pose = Ahead(nav.start, k)

\* the move toward the best probe has been made
Advanced == nav.op = "seek" /\ nav.pc = "advance" /\ nav.todo = <<>>

\* C15: after an iteration with an improving probe the robot has the heading at
\* which the best probe was taken and stands 2 steps along that heading from
\* the position where the iteration began.
C15_AdvanceTowardBest ==
  Advanced =>
    LET h == nav.best_pose.heading
    IN  /\ heading = h
        /\ x = SAdd(nav.start.x, SScale(Advance * StepSize, Cos(h)))
        /\ y = SAdd(nav.start.y, SScale(Advance * StepSize, Sin(h)))

\* the iterations a seek has begun: each begins with the move to its probe
Iterations == {i \in Samples(trail) : trail[i].kind = "probe"}

\* C16: find_radiation_source(max_steps) begins at most max_steps iterations,
\* whatever the dwells read, and ends; with max_steps = 0 it takes the baseline
\* sample alone and sends no command to the actuator.
C16_BoundedSeek ==
  /\ [](nav.op = "seek" =>
         /\ Cardinality(Iterations) <= nav.max_steps
         /\ Cardinality(Commands(trail)) <= 7 * nav.max_steps
         /\ nav.max_steps = 0 => Commands(trail) = {} /\ Len(trail) <= 1)
  /\ [](nav.op = "seek" /\ nav.pc = "done" /\ nav.max_steps = 0 =>
         Len(trail) = 1 /\ trail[1].kind = "base")
  /\ ((nav.op = "seek") ~> Ended)

C16_Witness ==
  /\ nav.op = "seek" /\ nav.pc = "done"
  /\ nav.max_steps = 2 /\ nav.steps_taken = 2
  /\ RLt(nav.previous_radiation, nav.current_radiation)
  /\ Cardinality(Iterations) = 2

\* the average reading of the latest dwell stored
LatestCpm == radiation_data[Len(radiation_data)].radiation_cpm

\* C17: the baseline of the next iteration is the probe value of this one and is
\* strictly greater than this one's baseline; an iteration whose probe does not
\* strictly exceed the baseline (an equal probe included) ends the search with
\* no advance and no further command or sample, and an improving one advances.
C17_StrictAscent ==
  /\ [][(Advanced /\ nav'.pc # nav.pc) =>
           /\ nav'.current_radiation = LatestCpm
           /\ RLt(nav.current_radiation, nav'.current_radiation)]_vars
  /\ [][(Evaluating /\ nav'.pc # nav.pc) =>
           IF RLt(nav.current_radiation, LatestCpm)
           THEN nav'.pc = "advance" /\ nav'.todo = <<Call("forward", Advance)>>
           ELSE nav'.pc = "seek_end" /\ nav'.todo = <<>>]_vars
  /\ [][(nav.op = "seek" /\ nav.pc \in {"seek_end", "done"}) =>
           trail' = trail /\ Pose' = Pose /\ radiation_data' = radiation_data]_vars

C17_Witness ==
  /\ nav.op = "seek" /\ nav.pc = "seek_end" /\ nav.steps_taken = 1
  /\ nav.steps_taken < nav.max_steps
  /\ RLt(nav.previous_radiation, nav.current_radiation)
  /\ LatestCpm = nav.current_radiation

\* find_radiation_source has returned because the while test failed: every
\* iteration allowed was made and the last one improved
BudgetUsedUp ==
  /\ nav.op = "seek" /\ nav.pc = "done"
  /\ nav.max_steps > 0 /\ nav.steps_taken = nav.max_steps

\* C18: a search that ends because its iterations are used up reports that
\* outcome, with a report that differs from the one made when no probe improved.
C18_OutcomeReported ==
  BudgetUsedUp =>
    nav.said # "" /\ nav.said # "No improvement found, source likely found!"

\* C19: when cancellation is requested while a seek iteration is in progress,
\* the search begins no further iteration after that one.
C19_SeekCancellable ==
  (nav.op = "seek" /\ nav.mid_iteration) => ~nav.begun_stopped

\* ------------------------------------------------- claims on move_and_track
\* the step appends an event of kind e to the trail
Appends(e) == Len(trail') = Len(trail) + 1 /\ trail'[Len(trail')].e = e

\* C20: the pose changes only in a step in which an actuator call completes, and
\* then as update_position prescribes for that call; a step in which the call
\* fails leaves the pose and the stored samples as they were and ends the
\* exploration, which from then on sends no command and takes no sample (its
\* caller's finally clause then parks the robot).
C20_FailureAborts ==
  /\ [][Pose' # Pose =>
           /\ Appends("move")
           /\ LET c == trail'[Len(trail')]
              IN  Pose' = update_position(Pose, c.action, c.steps)]_vars
  /\ [][Appends("failed") =>
           /\ Pose' = Pose
           /\ radiation_data' = radiation_data
           /\ heatmap_data' = heatmap_data
           /\ nav'.pc = "raised"]_vars
  /\ [][nav.pc \in {"raised", "parked"} =>
           /\ trail' = trail
           /\ Pose' = Pose
           /\ radiation_data' = radiation_data
           /\ nav'.pc \in {"raised", "parked"}]_vars

C20_Witness ==
  /\ nav.op = "scan" /\ nav.pc = "raised"
  /\ Len(radiation_data) = 2 /\ heading = 315
  /\ trail[Len(trail)] = [e |-> "failed", action |-> "forward", steps |-> 2]

\* ------------------------------------------------ claims on the probing phase
\* C26: when the directions of a seek iteration have all been tried and the
\* advance has not begun, x, y and heading are what they were when the
\* iteration began.
C26_ProbingRestoresPose == Evaluating => Pose = nav.start

\* ------------------------------------------------- claims on pulse_count
\* the sensor test loop reads sensor.pulse_count: get_reading has returned to
\* it and no pulse callback is in progress
ClientReads == pc = "idle" /\ caller = "poll" /\ last_call # "none" /\ cb_pc = "idle"

\* C27: the pulse_count a client reads after a call of get_reading is the
\* number of pulses detected since the sensor started (so it never decreases
\* from one poll to the next).
C27_TotalPulses == ClientReads => pulse_count = delivered

\* ------------------------------------------- claims on the dwell-start reset
\* a dwell has reset the pulse buffer and no pulse callback is in progress
ResetSettled == caller = "collect" /\ pc # "idle" /\ cb_pc = "idle"

\* C25: when a dwell has reset the pulse buffer and the pulse callback that ran
\* beside it has returned, the buffer holds no timestamp appended before the
\* reset, and it holds the timestamp of a callback that appended after it.
C25_ResetAtomic ==
  ResetSettled =>
    /\ cb_early => pulse_buffer = <<>>
    /\ (d_pulses /\ ~cb_early) => pulse_buffer # <<>>

\* ------------------------------------------------ claims on the stored data
\* the readings of the stored samples
StoredCpm == {radiation_data[i].radiation_cpm : i \in DOMAIN radiation_data}

\* the largest of a set of readings and 0
Largest(s) == CHOOSE v \in s \cup {Zero} : \A w \in s \cup {Zero} : RLe(w, v)

\* a dwell has stored its sample in this step
SampleStored == Len(radiation_data') = Len(radiation_data) + 1

\* C21: the recorded maximum is the largest reading among the stored samples
\* (0 when none exceeds it), and the maximum and its position change only in a
\* step that stores a sample whose reading is strictly above the recorded
\* maximum; they become that sample's reading and position.
C21_RunningMaximum ==
  /\ [](max_radiation = Largest(StoredCpm))
  /\ [][(max_radiation' # max_radiation \/ max_radiation_pos' # max_radiation_pos)
          => /\ SampleStored
             /\ RLt(max_radiation, radiation_data'[Len(radiation_data')].radiation_cpm)
             /\ max_radiation' = radiation_data'[Len(radiation_data')].radiation_cpm
             /\ max_radiation_pos' = radiation_data'[Len(radiation_data')].position]_vars

\* two samples with equal readings above 0 were stored at different positions
\* and the first of them holds the maximum
C21_Witness ==
  /\ nav.op = "console"
  /\ Len(radiation_data) = 2
  /\ radiation_data[1].radiation_cpm = radiation_data[2].radiation_cpm
  /\ radiation_data[1].position # radiation_data[2].position
  /\ RLt(Zero, max_radiation)
  /\ max_radiation = radiation_data[1].radiation_cpm
  /\ max_radiation_pos = radiation_data[1].position

\* the stored samples whose reading equals the recorded maximum
AtMaximum == {i \in DOMAIN radiation_data : radiation_data[i].radiation_cpm = max_radiation}

\* C29: once a sample is stored, the position recorded for the maximum is the
\* position of the earliest stored sample whose reading equals the recorded
\* maximum, also when every stored sample reads 0.
C29_MaximumIsASample ==
  radiation_data # <<>> =>
    /\ AtMaximum # {}
    /\ max_radiation_pos =
         radiation_data[CHOOSE i \in AtMaximum : \A j \in AtMaximum : i <= j].position

\* s is an initial part of t
Prefix(s, t) == Len(s) <= Len(t) /\ \A i \in DOMAIN s : t[i] = s[i]

\* C22: a step of the program, whatever it does (a move, a dwell, a posture
\* action, a rate query), leaves every stored sample as it is (its position,
\* heading and readings) and every reading of a heat map cell in its place:
\* samples and cell entries are only ever added at the end.
C22_SamplesKept ==
  [][/\ Prefix(radiation_data, radiation_data')
     /\ \A key \in DOMAIN heatmap_data :
          /\ key \in DOMAIN heatmap_data'
          /\ Prefix(heatmap_data[key], heatmap_data'[key])]_vars

\* a sample was stored, the robot then turned, and a second sample fell in the
\* same cell of the heat map
C22_Witness ==
  /\ nav.op = "console"
  /\ Len(radiation_data) = 2
  /\ radiation_data[1].heading # heading
  /\ radiation_data[2].heading = heading
  /\ \E key \in DOMAIN heatmap_data : Len(heatmap_data[key]) = 2

\* ---------------------------------------------------- claims on the pose
\* the command or dwell that this step has completed, if any
Completed == IF Len(trail') = Len(trail) + 1 THEN trail'[Len(trail')] ELSE [e |-> "none"]

\* this step has completed the movement command action
Moved(action) == Completed.e = "move" /\ Completed.action = action

\* C28: a completed forward or backward leaves the heading as it is, a completed
\* turn left or turn right leaves x and y as they are, and every other step
\* (stand, sit, a dwell, a rate query, a command that failed, a key read)
\* leaves x, y and heading as they are.
C28_FrameOfPose ==
  [][/\ (Moved("forward") \/ Moved("backward")) => heading' = heading
     /\ (Moved("turn left") \/ Moved("turn right")) => (x' = x /\ y' = y)
     /\ Completed.e # "move" => UNCHANGED <<x, y, heading>>]_vars

\* away from the origin and off the starting heading the console has completed
\* a posture action, a dwell and a rate query
C28_Witness ==
  /\ nav.op = "console"
  /\ <<x, y>> # <<Origin, Origin>> /\ heading # 0
  /\ last_call = "stale"
  /\ \E i \in DOMAIN trail : trail[i].e = "sample" \/ trail[i].e = "posture"

\* ---------------------------------------------------- claims on the tracker
\* calls of update_position have been made on the tracker
Applied == nav.op = "tracker" /\ nav.steps_taken > 0

\* C23: after every call of update_position, whatever the gait command and
\* the step count, the heading is at least 0 and below 360.
C23_HeadingNormalized == Applied => (heading >= 0 /\ heading < FullTurn)

\* a turn right from heading 0, which the subtraction takes below 0
C23_Witness ==
  Applied /\ nav.steps_taken = 1 /\ heading = FullTurn - TurnAngle

\* the round trip the latest call has completed
Trips(kind) == IF nav.op = "tracker" /\ trail # <<>> /\ trail[1].kind = kind
               THEN {trail[1]} ELSE {}

\* C24 as stated: a turn left of 8 steps leaves the heading as it was, and a
\* forward of k steps followed by a backward of k steps leaves x and y exactly
\* as they were before the forward.
C24_RoundTrips ==
  /\ \A t \in Trips("full turn") : heading = t.before.heading
  /\ \A t \in Trips("back") : x = t.before.x /\ y = t.before.y

\* the unit in the last place of a double (0 for a double of less than 2^52
\* units, which no rounding can have produced)
Ulp(v) ==
  IF v.mag = MagZero \/ Top(v.mag) < Significand - 1 THEN MagZero
  ELSE Pow2(Top(v.mag) - Significand + 1)

\* the magnitude of a - b, exactly
Distance(a, b) ==
  IF a.neg # b.neg THEN MagAdd(a.mag, b.mag)
  ELSE IF MagLt(a.mag, b.mag) THEN MagSub(b.mag, a.mag)
  ELSE MagSub(a.mag, b.mag)

\* v is within one unit in the last place of v0, the unit taken from the
\* larger of v and the intermediate value mid
Near(v, v0, mid) ==
  LET unit == IF MagLt(Ulp(v), Ulp(mid)) THEN Ulp(mid) ELSE Ulp(v)
  IN  ~MagLt(unit, Distance(v, v0))

\* C24 amended: a turn left of 8 steps leaves the heading as it was, and a
\* forward of k steps followed by a backward of k steps brings x and y back to
\* within one unit in the last place of what they were before the forward.
C24_RoundTripsWithinRounding ==
  /\ \A t \in Trips("full turn") : heading = t.before.heading
  /\ \A t \in Trips("back") : /\ Near(x, t.before.x, t.mid.x)
                              /\ Near(y, t.before.y, t.mid.y)
                              /\ heading = t.before.heading

\* a forward and a backward of equal steps have been made and x is not what it
\* was before them
C24_Witness ==
  \E t \in Trips("back") : x # t.before.x /\ Near(x, t.before.x, t.mid.x)

============================================================================
